---- MODULE Spec2Model ----
(***************************************************************************)
(* Readwise-to-Podcast pipeline: the run state (state.json), the episode   *)
(* catalog (episodes.json), the pending-notebook reconciler                *)
(* (_process_pending) and the new-article driver (_run_pipeline) of        *)
(* src/main.py, with the stores of src/state.py and the NotebookLM calls   *)
(* of src/podcast.py.                                                      *)
(*                                                                         *)
(* One invocation of main.py runs at a time (the flock of acquire_lock).   *)
(* pc is the position of the running invocation; "idle" means no process   *)
(* is running.  The f* variables are the two persisted files; state and    *)
(* episodes are the objects the running invocation holds in memory.        *)
(* Time is counted in hours.                                               *)
(*                                                                         *)
(* Spec is the pipeline, with each save of a file as one step.  SpecWrite  *)
(* is _atomic_write step by step on the files as the file system holds     *)
(* them; SpecMark is mark_processed on the states it can be given;         *)
(* SpecLoad is load_episodes on any catalog file; SpecRecurring is the     *)
(* pipeline started again and again, with runs that are not killed.        *)
(***************************************************************************)
EXTENDS Integers, Sequences, FiniteSets, TLC

(* ------------------------------ bounds --------------------------------- *)
NumArticles == 2
MaxNotebooks == 2
MaxTime == 2
MaxLimit == 1
MaxFetch == 2
MaxEntries == 3
\* the documents _atomic_write is given, and the pieces the text of a document
\* reaches the file in
NumDocs == 2
DocLen == 2

(* ------------------------- program constants --------------------------- *)
\* Python's None (last_run: str | None = None; the absent key of a dict).
None == -1
\* NOTEBOOK_MAX_AGE = 60 * 60 seconds: one hour.
NOTEBOOK_MAX_AGE == 1
\* the minimum size of the transcoded audio (st_size < 100_000).
MIN_AUDIO_SIZE == 100000

Articles == 1..NumArticles
Notebooks == 1..MaxNotebooks
Times == 0..MaxTime

VARIABLES
  \* state.json and episodes.json
  fLastRun, fLegacy, fProcessed, fPending, fEpisodes,
  \* the running invocation
  pc, limit, ignore_state, state, episodes,
  idx, still_pending, pending_completed,
  articles, i, processed_count, broke_early, cur,
  \* the world: the clock, Readwise, NotebookLM
  now, updated, nextNb,
  \* the lock on state.lock: the descriptor the running invocation holds
  lock_fd,
  \* history of what the invocations did
  \* (published: the step just taken uploaded the feed)
  runStarts, crashedJobs, uploadedJobs, published,
  \* history of the running invocation: the articles whose handling raised,
  \* the articles whose audio was too small, the jobs for which NotebookLM
  \* reported an expired session or an exhausted quota
  failedArticles, smallArticles, authJobs,
  \* the calls to NotebookLM: the notebooks whose deletion the latest run
  \* attempted, and the job the step just taken handled with the answer of
  \* its status poll
  deleted, handled,
  \* the files as the file system holds them, and the _atomic_write under way
  files, writer

diskVars == <<fLastRun, fLegacy, fProcessed, fPending, fEpisodes>>
loopVars == <<idx, still_pending, pending_completed>>
drvVars == <<articles, i, processed_count, broke_early, cur>>
memVars == <<pc, lock_fd, limit, ignore_state, state, episodes, loopVars,
             drvVars>>
envVars == <<now, updated, nextNb>>
histVars == <<runStarts, crashedJobs, uploadedJobs, published>>
runHist == <<failedArticles, smallArticles, authJobs>>
callVars == <<deleted, handled>>
pipeVars == <<diskVars, memVars, envVars, histVars, runHist, callVars>>
writeVars == <<files, writer>>
vars == <<pipeVars, writeVars>>

(* ------------------------- sequences helpers --------------------------- *)
Range(s) == {s[k] : k \in 1..Len(s)}

RECURSIVE SeqOfSet(_)
\* the elements of a set of integers in increasing order
SeqOfSet(S) ==
  IF S = {} THEN <<>>
  ELSE LET m == CHOOSE x \in S : \A y \in S : x <= y
       IN <<m>> \o SeqOfSet(S \ {m})


\* s[:n] of Python for n >= 0
Prefix(s, n) == SubSeq(s, 1, IF n < Len(s) THEN n ELSE Len(s))

(* ------------------------------ state.py ------------------------------- *)
NoArticles == [a \in Articles |-> None]

\* State(): last_run None, no processed article, no pending notebook
State == [last_run |-> None, processed_articles |-> NoArticles,
          pending_notebooks |-> <<>>]

\* the field names of the dataclass Episode
EpisodeFields ==
  {"article_id", "title", "author", "r2_key", "description", "source_url",
   "pub_date", "file_size"}

\* Episode(**kwargs): TRUE when the dataclass constructor accepts the keyword
\* arguments (each field given, no other keyword), FALSE when it raises
\* TypeError.
Episode(kwargs) == kwargs = EpisodeFields

\* load_state with a state it reads as written, last_run forgotten
load_state_NoLastRun ==
  [last_run |-> None,
   processed_articles |->
     IF fLegacy
     THEN [a \in Articles |-> IF fProcessed[a] # None THEN now ELSE None]
     ELSE fProcessed,
   pending_notebooks |-> fPending]

\* load_state(): the content of state.json; a processed_articles list of an
\* older version becomes a dict with the time of the load
load_state ==
  [last_run |-> fLastRun,
   processed_articles |->
     IF fLegacy
     THEN [a \in Articles |-> IF fProcessed[a] # None THEN now ELSE None]
     ELSE fProcessed,
   pending_notebooks |-> fPending]

\* save_state that writes processed_articles as the list of ids of the older
\* version
save_state_AsList(st) ==
  /\ fLastRun' = st.last_run
  /\ fLegacy' = TRUE
  /\ fProcessed' = st.processed_articles
  /\ fPending' = st.pending_notebooks

\* save_state(st): state.json replaced atomically by asdict(st)
save_state(st) ==
  /\ fLastRun' = st.last_run
  /\ fLegacy' = FALSE
  /\ fProcessed' = st.processed_articles
  /\ fPending' = st.pending_notebooks

\* is_processed that never finds an article
is_processed_Never(st, a) == FALSE

\* is_processed(state, article_id)
is_processed(st, a) == st.processed_articles[a] # None

\* mark_processed that stamps the article whether or not it is marked
mark_processed_Overwrite(st, a) == [st EXCEPT !.processed_articles[a] = now]

\* mark_processed(state, article_id): the state with the article marked
mark_processed(st, a) ==
  IF st.processed_articles[a] = None
  THEN [st EXCEPT !.processed_articles[a] = now]
  ELSE st

RECURSIVE DedupLast_KeepFirst(_)
\* the first entry of each article_id kept instead of the last
DedupLast_KeepFirst(s) ==
  IF s = <<>> THEN <<>>
  ELSE LET other(e) == e.article_id # s[1].article_id
       IN <<s[1]>> \o DedupLast_KeepFirst(SelectSeq(Tail(s), other))

RECURSIVE DedupLast(_)
\* the episodes of a list, one per article_id: the last entry of each id, in
\* the order of the ids' first entries (a dict keeps insertion order)
DedupLast(s) ==
  IF s = <<>> THEN <<>>
  ELSE LET a == s[1].article_id
           same == {k \in 1..Len(s) : s[k].article_id = a}
           last == CHOOSE k \in same : \A j \in same : j <= k
           other(e) == e.article_id # a
       IN <<s[last]>> \o DedupLast(SelectSeq(Tail(s), other))

\* load_episodes()
load_episodes == DedupLast(fEpisodes)

\* save_episodes(episodes)
save_episodes(eps) == fEpisodes' = eps

(* ---------------------- state.py: _atomic_write ------------------------ *)
\* STATE_FILE and EPISODES_FILE
Targets == {"state.json", "episodes.json"}

\* a temporary path that is the path itself: the document is written in place
tmp_path_InPlace(path) == path

\* tmp_path = path.with_suffix(".tmp")
tmp_path(path) == IF path = "state.json" THEN "state.tmp" ELSE "episodes.tmp"

Paths == Targets \cup {tmp_path(path) : path \in Targets}

\* the documents (asdict(state), the list of asdict(e)) a save is given
Docs == 1..NumDocs

\* json.dump(data, f, indent=2): the text of a document, in the pieces that
\* reach the file one after the other
Text(d) == [k \in 1..DocLen |-> d]

\* a path without a file
Absent == [exists |-> FALSE, text |-> <<>>]

\* no _atomic_write is under way
NoWriter == [pc |-> "none", path |-> "", data |-> 0, n |-> 0, old |-> Absent]

\* load_state / load_episodes on a file: the default when the file does not
\* exist, otherwise json.loads must accept its text
Loads(f) == ~f.exists \/ \E d \in Docs : f.text = Text(d)

\* save_state / save_episodes call _atomic_write(path, data), which opens
\* tmp_path for writing: the temporary file exists and is empty.  (old is
\* what the path held when the write began.)
AtomicOpen ==
  /\ writer.pc = "none"
  /\ \E path \in Targets, d \in Docs :
       /\ writer' = [pc |-> "dump", path |-> path, data |-> d, n |-> 0,
                     old |-> files[path]]
       /\ files' = [files EXCEPT ![tmp_path(path)] =
                                   [exists |-> TRUE, text |-> <<>>]]
  /\ UNCHANGED pipeVars

\* json.dump: the next piece of the text reaches the open file
AtomicDump ==
  /\ writer.pc = "dump"
  /\ writer.n < DocLen
  /\ files' = [files EXCEPT ![tmp_path(writer.path)].text =
                              Append(@, Text(writer.data)[writer.n + 1])]
  /\ writer' = [writer EXCEPT !.n = @ + 1]
  /\ UNCHANGED pipeVars

\* the with block has closed the file: os.replace(tmp_path, path)
AtomicReplace ==
  /\ writer.pc = "dump"
  /\ writer.n = DocLen
  /\ files' = [p \in Paths |->
                 IF p = writer.path THEN files[tmp_path(writer.path)]
                 ELSE IF p = tmp_path(writer.path) THEN Absent
                 ELSE files[p]]
  /\ writer' = NoWriter
  /\ UNCHANGED pipeVars

\* the process is killed during _atomic_write: the files stay as they are
AtomicKill ==
  /\ writer.pc # "none"
  /\ writer' = NoWriter
  /\ UNCHANGED <<files, pipeVars>>

(* ----------------------------- podcast.py ------------------------------ *)
\* what client.artifacts.wait_for_completion answers: it times out, reports
\* the generation failed, not complete or complete, or it raises
Responses ==
  {"timeout", "failed", "incomplete", "complete",
   "AuthError", "RateLimitError", "Exception"}

\* try_download_podcast(...): "None" (not ready yet), "path" (the mp4 was
\* downloaded) or the exception it raises
try_download_podcast(resp) ==
  CASE resp = "timeout" -> "None"
    [] resp = "failed" -> "RuntimeError"
    [] resp = "incomplete" -> "None"
    [] resp = "complete" -> "path"
    [] OTHER -> resp

\* the answer of a status poll as the caller sees it: "None", "path" or
\* "raised"
Answer(resp) ==
  IF try_download_podcast(resp) \in {"None", "path"}
  THEN try_download_podcast(resp) ELSE "raised"

\* a failure of the deletion raising instead of being logged
cleanup_notebook_Raises(ok) == IF ok THEN "None" ELSE "Exception"

\* cleanup_notebook(notebook_id): the deletion succeeds (ok) or fails; the
\* failure is caught and logged, the call returns None either way
cleanup_notebook(ok) == IF ok THEN "None" ELSE "None"

\* what start_podcast does: it returns the ids of a new notebook with the
\* generation started, or raises after cleaning the notebook up
StartResults == {"ok", "AuthError", "RateLimitError", "Exception"}

\* convert_to_mp3 and stat: the size of the mp3, None when ffmpeg fails
Sizes == {None, MIN_AUDIO_SIZE - 1, MIN_AUDIO_SIZE}

\* the conversion runs only on a downloaded mp4, the upload only on an mp3
\* that is large enough
Conversions(resp) ==
  IF try_download_podcast(resp) = "path" THEN Sizes ELSE {None}

Uploads(size) ==
  IF size # None /\ size >= MIN_AUDIO_SIZE THEN BOOLEAN ELSE {FALSE}

(* ----------------------------- readwise.py ----------------------------- *)
\* the articles Readwise lists for updatedAfter = w (all of them for None)
Eligible(w) ==
  {a \in Articles : updated[a] # None /\ (w = None \/ updated[a] > w)}

\* fetch_new_articles(token, w), then the articles with a source_url: the
\* eligible articles in any order; a page boundary may list one twice
FetchResults(w) ==
  {s \in UNION {[1..n -> Eligible(w)] : n \in 0..MaxFetch} :
     Range(s) = Eligible(w)}

RECURSIVE SortRecent(_)
\* articles.sort(key=updated_at, reverse=True): stable, newest first
SortRecent(s) ==
  IF s = <<>> THEN <<>>
  ELSE LET rest == SortRecent(Tail(s))
           newer == {k \in 1..Len(rest) : updated[rest[k]] > updated[s[1]]}
           n == Cardinality(newer)
       IN SubSeq(rest, 1, n) \o <<s[1]>> \o SubSeq(rest, n + 1, Len(rest))

(* ------------------------------- main.py ------------------------------- *)
\* the keyword arguments of Episode(...) in _process_pending
ReconcilerEpisodeArgs ==
  {"article_id", "title", "author", "mp3_url", "description", "source_url",
   "pub_date", "file_size"}

\* the keyword arguments of Episode(...) in _run_pipeline
DriverEpisodeArgs ==
  {"article_id", "title", "author", "mp3_url", "description", "source_url",
   "pub_date", "file_size"}

\* an age that never grows
_age_seconds_Zero(started_at) == now - now

\* _age_seconds(started_at)
_age_seconds(started_at) == now - started_at

\* the limits --limit and --recent give
Limits(ign) == IF ign THEN 1..MaxLimit ELSE 0..MaxLimit

\* the notebook ids of the jobs in a list of PendingNotebooks
JobsOf(pending) == {pending[k].notebook_id : k \in 1..Len(pending)}

\* the descriptor os.open returns for state.lock
LockFd == 3

\* acquire_lock that takes the lock whoever holds it
acquire_lock_Always == TRUE

\* acquire_lock(): flock(LOCK_EX | LOCK_NB) succeeds when no invocation
\* holds the lock; otherwise it raises SystemExit
acquire_lock == lock_fd = None

\* the finally of main: flock(LOCK_UN) and close (the kernel does the same
\* for a process that is killed)
main_finally == lock_fd' = None

\* the process ends: the lock is released, what it held in memory is gone
ResetMem ==
  /\ main_finally
  /\ limit' = 0 /\ ignore_state' = FALSE
  /\ state' = State /\ episodes' = <<>>
  /\ idx' = 0 /\ still_pending' = <<>> /\ pending_completed' = 0
  /\ articles' = <<>> /\ i' = 0 /\ processed_count' = 0
  /\ broke_early' = FALSE /\ cur' = 0
  /\ runStarts' = 0
  /\ failedArticles' = {} /\ smallArticles' = {} /\ authJobs' = {}

\* a step that handles no job and calls no cleanup_notebook
NoJob == [notebook_id |-> 0, answer |-> "no job"]

NoCall == handled' = NoJob /\ UNCHANGED deleted

\* the articles a run of an older version may have processed (the state
\* file then lists them: load_state migrates that list)
LegacyArticles == {1}

TypeOK ==
  /\ fLastRun \in Times \cup {None}
  /\ fLegacy \in BOOLEAN
  /\ fProcessed \in [Articles -> Times \cup {None}]
  /\ pc \in {"idle", "pending", "fetch", "loop", "save", "wait", "feed"}
  /\ now \in Times
  /\ nextNb \in 1..(MaxNotebooks + 1)

Init ==
  /\ \E S \in SUBSET LegacyArticles, E \in SUBSET LegacyArticles,
        legacy \in BOOLEAN :
       /\ E \subseteq S
       /\ legacy \/ S = {}
       /\ fLegacy = legacy
       /\ fLastRun = IF legacy THEN 0 ELSE None
       /\ fProcessed = [a \in Articles |-> IF a \in S THEN 0 ELSE None]
       /\ fEpisodes = [k \in 1..Cardinality(E) |->
                         [article_id |-> SeqOfSet(E)[k], pub_date |-> 0]]
       /\ updated = [a \in Articles |-> None]
  /\ fPending = <<>>
  /\ pc = "idle" /\ lock_fd = None /\ limit = 0 /\ ignore_state = FALSE
  /\ state = State /\ episodes = <<>>
  /\ idx = 0 /\ still_pending = <<>> /\ pending_completed = 0
  /\ articles = <<>> /\ i = 0 /\ processed_count = 0
  /\ broke_early = FALSE /\ cur = 0
  /\ now = 0 /\ nextNb = 1
  /\ runStarts = 0 /\ crashedJobs = {} /\ uploadedJobs = {}
  /\ published = FALSE
  /\ failedArticles = {} /\ smallArticles = {} /\ authJobs = {}
  /\ deleted = {} /\ handled = NoJob
  /\ files = [p \in Paths |-> Absent] /\ writer = NoWriter

\* main() with --init: last_run becomes now
RunInit ==
  /\ acquire_lock
  /\ save_state([load_state EXCEPT !.last_run = now])
  /\ published' = FALSE
  /\ UNCHANGED <<fEpisodes, memVars, envVars, runStarts, crashedJobs,
                 uploadedJobs, runHist>>
  /\ deleted' = {} /\ handled' = NoJob
  /\ UNCHANGED writeVars

\* the first run starting from a new State instead of the one it loaded
SeedRun_Fresh ==
  /\ acquire_lock
  /\ load_state.last_run = None
  /\ save_state([State EXCEPT !.last_run = now])
  /\ published' = FALSE
  /\ UNCHANGED <<fEpisodes, memVars, envVars, runStarts, crashedJobs,
                 uploadedJobs, runHist>>
  /\ deleted' = {} /\ handled' = NoJob
  /\ UNCHANGED writeVars

\* _run_pipeline, first run without state: last_run becomes now, nothing else
SeedRun ==
  /\ acquire_lock
  /\ load_state.last_run = None
  /\ save_state([load_state EXCEPT !.last_run = now])
  /\ published' = FALSE
  /\ UNCHANGED <<fEpisodes, memVars, envVars, runStarts, crashedJobs,
                 uploadedJobs, runHist>>
  /\ deleted' = {} /\ handled' = NoJob
  /\ UNCHANGED writeVars

\* _run_pipeline(limit, ignore_state) up to the loop of _process_pending,
\* which returns at once when nothing is pending
StartRun ==
  /\ pc = "idle"
  /\ acquire_lock
  /\ lock_fd' = LockFd
  /\ published' = FALSE
  /\ \E ign \in BOOLEAN : \E lim \in Limits(ign) :
       /\ ~(load_state.last_run = None /\ ~ign)
       /\ limit' = lim /\ ignore_state' = ign
  /\ state' = load_state
  /\ episodes' = load_episodes
  /\ pc' = IF load_state.pending_notebooks = <<>> THEN "fetch" ELSE "pending"
  /\ idx' = 1 /\ still_pending' = <<>> /\ pending_completed' = 0
  /\ UNCHANGED <<diskVars, drvVars, envVars, runStarts, crashedJobs,
                 uploadedJobs, runHist>>
  /\ deleted' = {} /\ handled' = NoJob
  /\ UNCHANGED writeVars

\* a job still generating handled like one whose poll raised
ReconcileKind_DropNotReady(p, resp, size, up) ==
  IF _age_seconds(p.started_at) > NOTEBOOK_MAX_AGE THEN "stale"
  ELSE IF try_download_podcast(resp) # "path" THEN "pollerror"
  ELSE IF size = None THEN "converterror"
  ELSE IF size < MIN_AUDIO_SIZE THEN "small"
  ELSE IF ~up THEN "uploaderror"
  ELSE IF ~Episode(ReconcilerEpisodeArgs) THEN "TypeError"
  ELSE "completed"

\* how _process_pending handles one pending notebook, from the answer of the
\* poll (wait=False), the size of the mp3 and whether the upload succeeds
ReconcileKind(p, resp, size, up) ==
  IF _age_seconds(p.started_at) > NOTEBOOK_MAX_AGE THEN "stale"
  ELSE IF try_download_podcast(resp) \notin {"None", "path"} THEN "pollerror"
  ELSE IF try_download_podcast(resp) = "None" THEN "notready"
  ELSE IF size = None THEN "converterror"
  ELSE IF size < MIN_AUDIO_SIZE THEN "small"
  ELSE IF ~up THEN "uploaderror"
  ELSE IF ~Episode(ReconcilerEpisodeArgs) THEN "TypeError"
  ELSE "completed"

\* one turn of the loop of _process_pending.  An exception raised while the
\* audio is handled passes the finally and ends the run: _process_pending and
\* _run_pipeline do not catch it.  cleanup_notebook is called for every job
\* but one still generating: for a stale job before any poll, after a poll
\* that raised, and in the finally of a job whose audio is there.
ReconcileJob ==
  /\ pc = "pending"
  /\ idx <= Len(state.pending_notebooks)
  /\ LET p == state.pending_notebooks[idx] IN
     \E resp \in Responses : \E size \in Conversions(resp) :
     \E up \in Uploads(size), ok \in BOOLEAN :
       LET kind == ReconcileKind(p, resp, size, up)
           raised == \/ kind \in {"converterror", "uploaderror", "TypeError"}
                     \/ kind # "notready" /\ cleanup_notebook(ok) # "None"
       IN
       /\ handled' = [notebook_id |-> p.notebook_id,
                      answer |-> IF kind = "stale" THEN "not polled"
                                 ELSE Answer(resp)]
       /\ deleted' = IF kind # "notready"
                     THEN deleted \cup {p.notebook_id} ELSE deleted
       /\ uploadedJobs' = IF kind \in {"TypeError", "completed"}
                          THEN uploadedJobs \cup {p.notebook_id}
                          ELSE uploadedJobs
       /\ IF kind = "completed"
          THEN save_episodes(Append(episodes,
                 [article_id |-> p.article_id, pub_date |-> now]))
          ELSE UNCHANGED fEpisodes
       /\ IF raised
          THEN /\ pc' = "idle" /\ ResetMem
          ELSE /\ pc' = pc /\ runStarts' = runStarts
               /\ idx' = idx + 1
               /\ still_pending' = IF kind = "notready"
                                   THEN Append(still_pending, p)
                                   ELSE still_pending
               /\ episodes' = IF kind = "completed"
                              THEN Append(episodes,
                                     [article_id |-> p.article_id,
                                      pub_date |-> now])
                              ELSE episodes
               /\ state' = IF kind = "completed"
                           THEN mark_processed(state, p.article_id)
                           ELSE state
               /\ pending_completed' = IF kind = "completed"
                                       THEN pending_completed + 1
                                       ELSE pending_completed
               /\ authJobs' =
                    IF kind = "pollerror"
                       /\ resp \in {"AuthError", "RateLimitError"}
                    THEN authJobs \cup {p.notebook_id} ELSE authJobs
               /\ UNCHANGED <<lock_fd, limit, ignore_state, drvVars,
                              failedArticles, smallArticles>>
  /\ UNCHANGED <<fLastRun, fLegacy, fProcessed, fPending, envVars,
                 crashedJobs, published>>
  /\ UNCHANGED writeVars

\* the end of _process_pending: the notebooks still generating stay pending
\* and the state is saved
ReconcileSave ==
  /\ pc = "pending"
  /\ idx > Len(state.pending_notebooks)
  /\ state' = [state EXCEPT !.pending_notebooks = still_pending]
  /\ save_state(state')
  /\ pc' = "fetch"
  /\ crashedJobs' = crashedJobs \cap JobsOf(still_pending)
  /\ uploadedJobs' = uploadedJobs \cap JobsOf(still_pending)
  /\ authJobs' = authJobs \cap JobsOf(still_pending)
  /\ UNCHANGED <<fEpisodes, lock_fd, limit, ignore_state, episodes, loopVars,
                 drvVars, envVars, runStarts, published, failedArticles,
                 smallArticles>>
  /\ handled' = NoJob
  /\ deleted' = deleted \cap JobsOf(still_pending)
  /\ UNCHANGED writeVars

\* step 2 of _run_pipeline: the fetch; without articles the run ends here
Fetch ==
  /\ pc = "fetch"
  /\ \E res \in FetchResults(IF ignore_state THEN None ELSE state.last_run) :
       LET arts == IF ignore_state THEN Prefix(SortRecent(res), limit)
                   ELSE res
       IN
       IF arts = <<>>
       THEN /\ save_state(IF state.pending_notebooks = <<>>
                          THEN [state EXCEPT !.last_run = now]
                          ELSE state)
            /\ published' = (episodes # <<>> /\ pending_completed > 0)
            /\ pc' = "idle" /\ ResetMem
       ELSE /\ articles' = arts /\ i' = 1
            /\ processed_count' = 0 /\ broke_early' = FALSE
            /\ pc' = "loop"
            /\ UNCHANGED <<fLastRun, fLegacy, fProcessed, fPending, lock_fd,
                           limit, ignore_state, state, episodes, loopVars,
                           cur, runStarts, published, runHist>>
  /\ UNCHANGED <<fEpisodes, envVars, crashedJobs, uploadedJobs>>
  /\ NoCall
  /\ UNCHANGED writeVars

\* the loop of step 3 skips an article that is processed
DriverSkip ==
  /\ pc = "loop"
  /\ i <= Len(articles)
  /\ is_processed(state, articles[i])
  /\ i' = i + 1
  /\ UNCHANGED <<diskVars, pc, lock_fd, limit, ignore_state, state, episodes,
                 loopVars, articles, processed_count, broke_early, cur,
                 envVars, histVars, runHist>>
  /\ NoCall
  /\ UNCHANGED writeVars

\* the loop stops at the limit
DriverLimit ==
  /\ pc = "loop"
  /\ i <= Len(articles)
  /\ ~is_processed(state, articles[i])
  /\ processed_count >= limit
  /\ broke_early' = TRUE
  /\ pc' = "feed"
  /\ UNCHANGED <<diskVars, lock_fd, limit, ignore_state, state, episodes,
                 loopVars, articles, i, processed_count, cur, envVars,
                 histVars, runHist>>
  /\ NoCall
  /\ UNCHANGED writeVars

\* start_podcast for the article
DriverStart ==
  /\ pc = "loop"
  /\ i <= Len(articles)
  /\ ~is_processed(state, articles[i])
  /\ processed_count < limit
  /\ \E res \in StartResults :
       /\ res = "ok" => nextNb <= MaxNotebooks
       /\ pc' = CASE res = "ok" -> "save"
                  [] res \in {"AuthError", "RateLimitError"} -> "feed"
                  [] OTHER -> "loop"
       /\ broke_early' = (res \in {"AuthError", "RateLimitError"})
       /\ i' = IF res = "Exception" THEN i + 1 ELSE i
       /\ cur' = IF res = "ok" THEN nextNb ELSE cur
       /\ nextNb' = IF res = "ok" THEN nextNb + 1 ELSE nextNb
       /\ runStarts' = IF res = "ok" THEN runStarts + 1 ELSE runStarts
       /\ failedArticles' = IF res = "Exception"
                            THEN failedArticles \cup {articles[i]}
                            ELSE failedArticles
  /\ UNCHANGED <<diskVars, lock_fd, limit, ignore_state, state, episodes,
                 loopVars, articles, processed_count, now, updated,
                 crashedJobs, uploadedJobs, published, smallArticles,
                 authJobs>>
  /\ NoCall
  /\ UNCHANGED writeVars

\* the PendingNotebook is appended in memory but the state is not saved
DriverSavePending_NoSave ==
  /\ pc = "save"
  /\ state' = [state EXCEPT !.pending_notebooks = Append(@,
                 [article_id |-> articles[i], notebook_id |-> cur,
                  started_at |-> now])]
  /\ pc' = "wait"
  /\ UNCHANGED <<diskVars, lock_fd, limit, ignore_state, episodes, loopVars,
                 drvVars, envVars, histVars, runHist>>
  /\ NoCall
  /\ UNCHANGED writeVars

\* the PendingNotebook of the job is appended and the state saved
DriverSavePending ==
  /\ pc = "save"
  /\ state' = [state EXCEPT !.pending_notebooks = Append(@,
                 [article_id |-> articles[i], notebook_id |-> cur,
                  started_at |-> now])]
  /\ save_state(state')
  /\ pc' = "wait"
  /\ UNCHANGED <<fEpisodes, lock_fd, limit, ignore_state, episodes, loopVars,
                 drvVars, envVars, histVars, runHist>>
  /\ NoCall
  /\ UNCHANGED writeVars

\* how the driver handles the job it started, from the answer of the wait
\* (wait=True), the size of the mp3 and whether the upload succeeds
DriverKind(resp, size, up) ==
  IF try_download_podcast(resp) = "None" THEN "notready"
  ELSE IF try_download_podcast(resp) \in {"AuthError", "RateLimitError"}
  THEN try_download_podcast(resp)
  ELSE IF try_download_podcast(resp) # "path" THEN "Exception"
  ELSE IF size = None THEN "Exception"
  ELSE IF size < MIN_AUDIO_SIZE THEN "small"
  ELSE IF ~up THEN "Exception"
  ELSE IF ~Episode(DriverEpisodeArgs) THEN "Exception"
  ELSE "completed"

\* the rest of the loop body for the job: the wait, the conversion, the
\* upload, the Episode and the except clauses
DriverWait ==
  /\ pc = "wait"
  /\ \E resp \in Responses : \E size \in Conversions(resp) :
     \E up \in Uploads(size) :
       LET kind == DriverKind(resp, size, up)
           a == articles[i]
           others(p) == p.notebook_id # cur
           removed == [state EXCEPT !.pending_notebooks = SelectSeq(@, others)]
           eps == Append(episodes, [article_id |-> a, pub_date |-> now])
       IN
       /\ uploadedJobs' =
            IF kind \in {"small", "completed"} THEN uploadedJobs \ {cur}
            ELSE IF try_download_podcast(resp) = "path" /\ size # None
                    /\ size >= MIN_AUDIO_SIZE /\ up
            THEN uploadedJobs \cup {cur} ELSE uploadedJobs
       /\ crashedJobs' = IF kind \in {"small", "completed"}
                         THEN crashedJobs \ {cur} ELSE crashedJobs
       /\ state' = CASE kind = "small" -> removed
                     [] kind = "completed" -> mark_processed(removed, a)
                     [] OTHER -> state
       /\ episodes' = IF kind = "completed" THEN eps ELSE episodes
       /\ IF kind = "completed" THEN save_episodes(eps)
          ELSE UNCHANGED fEpisodes
       /\ IF kind \in {"small", "completed"} THEN save_state(state')
          ELSE UNCHANGED <<fLastRun, fLegacy, fProcessed, fPending>>
       /\ processed_count' = IF kind = "completed" THEN processed_count + 1
                             ELSE processed_count
       /\ broke_early' = (kind \in {"AuthError", "RateLimitError"})
       /\ pc' = IF kind \in {"AuthError", "RateLimitError"} THEN "feed"
                ELSE "loop"
       /\ i' = IF kind \in {"AuthError", "RateLimitError"} THEN i ELSE i + 1
       /\ failedArticles' = IF kind = "Exception"
                            THEN failedArticles \cup {a} ELSE failedArticles
       /\ smallArticles' = IF kind = "small"
                           THEN smallArticles \cup {a} ELSE smallArticles
       /\ authJobs' = IF kind \in {"AuthError", "RateLimitError"}
                      THEN authJobs \cup {cur} ELSE authJobs
       /\ handled' = [notebook_id |-> cur, answer |-> Answer(resp)]
       /\ deleted' = IF kind \in {"small", "completed"}
                     THEN deleted \cup {cur} ELSE deleted
  /\ UNCHANGED <<lock_fd, limit, ignore_state, loopVars, articles, cur, now,
                 updated, nextNb, runStarts, published>>
  /\ UNCHANGED writeVars

\* the loop of step 3 is through the articles
DriverLoopEnd ==
  /\ pc = "loop"
  /\ i > Len(articles)
  /\ pc' = "feed"
  /\ UNCHANGED <<diskVars, lock_fd, limit, ignore_state, state, episodes,
                 loopVars, drvVars, envVars, histVars, runHist>>
  /\ NoCall
  /\ UNCHANGED writeVars

\* the end of the run with last_run advanced whether or not the loop broke
Finish_IgnoreBreak ==
  /\ pc = "feed"
  /\ IF state.pending_notebooks = <<>>
     THEN save_state([state EXCEPT !.last_run = now])
     ELSE UNCHANGED <<fLastRun, fLegacy, fProcessed, fPending>>
  /\ published' = (episodes # <<>>)
  /\ pc' = "idle" /\ ResetMem
  /\ UNCHANGED <<fEpisodes, envVars, crashedJobs, uploadedJobs>>
  /\ NoCall
  /\ UNCHANGED writeVars

\* step 4 of _run_pipeline and its end: the feed is published when there are
\* episodes; last_run advances when the loop did not break and nothing is
\* pending
Finish ==
  /\ pc = "feed"
  /\ IF ~broke_early /\ state.pending_notebooks = <<>>
     THEN save_state([state EXCEPT !.last_run = now])
     ELSE UNCHANGED <<fLastRun, fLegacy, fProcessed, fPending>>
  /\ published' = (episodes # <<>>)
  /\ pc' = "idle" /\ ResetMem
  /\ UNCHANGED <<fEpisodes, envVars, crashedJobs, uploadedJobs>>
  /\ NoCall
  /\ UNCHANGED writeVars

\* the process is killed: the files stay as they are
Crash ==
  /\ pc # "idle"
  /\ pc' = "idle" /\ ResetMem
  /\ crashedJobs' = JobsOf(fPending)
  /\ UNCHANGED <<diskVars, envVars, uploadedJobs, published>>
  /\ NoCall
  /\ UNCHANGED writeVars

\* the clock advances by an hour: between two runs, or while the driver
\* waits for a job (the other steps of a run take seconds)
Tick ==
  /\ pc \in {"idle", "wait"}
  /\ now < MaxTime
  /\ now' = now + 1
  /\ published' = FALSE
  /\ UNCHANGED <<diskVars, memVars, updated, nextNb, runStarts, crashedJobs,
                 uploadedJobs, runHist>>
  /\ NoCall
  /\ UNCHANGED writeVars

\* an article is saved to Readwise, between two runs
SaveArticle ==
  /\ pc = "idle"
  /\ \E a \in Articles :
       /\ updated[a] = None
       /\ updated' = [updated EXCEPT ![a] = now]
  /\ published' = FALSE
  /\ UNCHANGED <<diskVars, memVars, now, nextNb, runStarts, crashedJobs,
                 uploadedJobs, runHist>>
  /\ NoCall
  /\ UNCHANGED writeVars

\* main() started while another invocation holds the lock: acquire_lock
\* raises SystemExit before anything is loaded, nothing changes
SecondInvocation ==
  /\ ~acquire_lock
  /\ UNCHANGED vars

Next ==
  \/ RunInit \/ SeedRun \/ StartRun
  \/ ReconcileJob \/ ReconcileSave
  \/ Fetch
  \/ DriverSkip \/ DriverLimit \/ DriverStart \/ DriverSavePending
  \/ DriverWait \/ DriverLoopEnd
  \/ Finish
  \/ Crash \/ Tick \/ SaveArticle \/ SecondInvocation

Spec == Init /\ [][Next]_vars

(* recurring runs: the scheduler starts a pipeline run again and again, every
   run started goes on to its end (no run is killed), and the clock goes on *)
RunStep ==
  \/ ReconcileJob \/ ReconcileSave
  \/ Fetch
  \/ DriverSkip \/ DriverLimit \/ DriverStart \/ DriverSavePending
  \/ DriverWait \/ DriverLoopEnd
  \/ Finish

NextRecurring ==
  \/ RunInit \/ SeedRun \/ StartRun
  \/ RunStep
  \/ Tick \/ SaveArticle \/ SecondInvocation

Recurring ==
  /\ WF_vars(StartRun)
  /\ WF_vars(RunStep)
  /\ WF_vars(Tick)

SpecRecurring == Init /\ [][NextRecurring]_vars /\ Recurring

(* ------------- _atomic_write, one write after the other ---------------- *)
InitWrite == Init /\ fLastRun = None

NextWrite == AtomicOpen \/ AtomicDump \/ AtomicReplace \/ AtomicKill

SpecWrite == InitWrite /\ [][NextWrite]_vars

(* ------------- mark_processed on the states it is given ---------------- *)
\* what a run holds besides its State and the clock
markFrame ==
  <<fEpisodes, pc, lock_fd, limit, ignore_state, episodes, loopVars, drvVars,
    updated, nextNb, histVars, runHist, callVars, writeVars>>

\* mark_processed(state, article_id) for any article
MarkProcessed ==
  /\ \E a \in Articles : state' = mark_processed(state, a)
  /\ UNCHANGED <<fLastRun, fLegacy, fProcessed, fPending, now, markFrame>>

\* the clock advances by an hour
MarkTick ==
  /\ now < MaxTime
  /\ now' = now + 1
  /\ UNCHANGED <<fLastRun, fLegacy, fProcessed, fPending, state, markFrame>>

\* state.last_run = now, as at the end of a run
MarkLastRun ==
  /\ state' = [state EXCEPT !.last_run = now]
  /\ UNCHANGED <<fLastRun, fLegacy, fProcessed, fPending, now, markFrame>>

\* the run saves the state and a later run loads it
MarkReload ==
  /\ save_state(state)
  /\ UNCHANGED <<now, markFrame>>
  /\ state' = load_state'

InitMark == Init /\ fLastRun = None

NextMark == MarkProcessed \/ MarkTick \/ MarkLastRun \/ MarkReload

SpecMark == InitMark /\ [][NextMark]_vars

(* load_episodes alone, on any catalog file: episodes.json holds up to
   MaxEntries entries, several of them may carry the same article id (a file
   written by hand or by an older version), and a run loads it *)
CatalogFiles ==
  UNION {[1..n -> [article_id : Articles, pub_date : Times]] :
           n \in 0..MaxEntries}

loadFrame ==
  <<fLastRun, fLegacy, fProcessed, fPending, pc, lock_fd, limit, ignore_state,
    state, loopVars, drvVars, envVars, histVars, runHist, callVars, writeVars>>

\* episodes.json holds some list of entries
CatalogWritten ==
  /\ \E file \in CatalogFiles : fEpisodes' = file
  /\ UNCHANGED <<episodes, loadFrame>>

\* episodes = load_episodes()
LoadEpisodes ==
  /\ episodes' = load_episodes
  /\ UNCHANGED <<fEpisodes, loadFrame>>

InitLoad == Init /\ fLastRun = None

NextLoad == CatalogWritten \/ LoadEpisodes

SpecLoad == InitLoad /\ [][NextLoad]_vars

(* ------------------------------- claims ------------------------------- *)
\* the persisted pending notebooks and episodes of an article
PendingOf(a) == {k \in 1..Len(fPending) : fPending[k].article_id = a}
EpisodesOf(a) == {k \in 1..Len(fEpisodes) : fEpisodes[k].article_id = a}

\* no element of the sequence occurs twice
NoDuplicate(s) == \A j, k \in 1..Len(s) : s[j] = s[k] => j = k

\* the article ids of a list of PendingNotebooks, in its order
ArticlesOf(pending) == [k \in 1..Len(pending) |-> pending[k].article_id]

\* C1: no invocation writes a new value of last_run to the persisted state
\* while pending_notebooks is non-empty: a step that changes the persisted
\* last_run leaves a state file without pending notebooks.
C1_NoAdvanceWhilePending ==
  [][fLastRun' # fLastRun => fPending' = <<>>]_vars

\* C2: a run whose driver loop stops early (AuthError, RateLimitError, the
\* limit reached before an unprocessed article) goes on to the feed step and
\* leaves the persisted last_run as it was: no step of a run before its last
\* changes last_run, and neither does the last step of a run that broke early.
C2_EarlyStopKeepsLastRun ==
  [][/\ (broke_early' /\ ~broke_early) => pc' = "feed"
     /\ (pc # "idle" /\ pc' # "idle") => fLastRun' = fLastRun
     /\ (pc = "feed" /\ broke_early) => fLastRun' = fLastRun]_vars

\* C2, its case: the loop broke after a job was started in the run (AuthError
\* or RateLimitError, the limit not reached) and the run is at the feed step
C2_Witness ==
  pc = "feed" /\ broke_early /\ runStarts > 0 /\ processed_count < limit

\* C3: no article is submitted twice: the persisted state never holds two
\* pending notebooks of one article, and the catalog never two episodes of it.
C3_Idempotent ==
  \A a \in Articles :
    Cardinality(PendingOf(a)) <= 1 /\ Cardinality(EpisodesOf(a)) <= 1

\* C4: after the process was killed with a job persisted as pending, no
\* second generation job is started for the article of that job while the
\* job is pending.
C4_NoSecondJobAfterCrash ==
  [][runStarts' > runStarts =>
       \A k \in 1..Len(fPending) :
         fPending[k].notebook_id \in crashedJobs
           => fPending[k].article_id # articles[i]]_vars

\* C5: while the driver waits for the job it started (and when the process is
\* killed during the wait) the persisted state holds the job as pending.
C5_PendingSavedBeforeWait ==
  [][pc = "wait" =>
       /\ cur \in JobsOf(fPending)
       /\ pc' = "idle" => cur \in JobsOf(fPending')]_vars

\* C5, its case: the driver waits for a job of the article at hand
C5_Witness ==
  /\ pc = "wait"
  /\ \E k \in 1..Len(fPending) :
       fPending[k].notebook_id = cur /\ fPending[k].article_id = articles[i]

\* C6: when the reconciler moves on to the next pending job, the outcome of
\* the jobs before it is in the persisted state: a job it dropped is no
\* longer persisted as pending (stated for pending jobs of different
\* articles).
C6_ReconcilerCommitsEachJob ==
  (/\ pc = "pending" /\ idx <= Len(state.pending_notebooks)
   /\ NoDuplicate(ArticlesOf(state.pending_notebooks))) =>
    \A k \in 1..(idx - 1) :
      state.pending_notebooks[k].notebook_id \notin JobsOf(still_pending)
        => state.pending_notebooks[k].notebook_id \notin JobsOf(fPending)

\* C7: a job whose audio was uploaded leaves the persisted pending notebooks
\* only with the Episode of its article in the persisted catalog (stated
\* for the jobs no kill of the process interrupted).
C7_EpisodeSavedBeforeJobRemoved ==
  [][\A k \in 1..Len(fPending) :
       (/\ fPending[k].notebook_id \in uploadedJobs
        /\ fPending[k].notebook_id \notin crashedJobs
        /\ fPending[k].notebook_id \notin JobsOf(fPending'))
         => \E e \in 1..Len(fEpisodes') :
              fEpisodes'[e].article_id = fPending[k].article_id]_vars

\* C8: the persisted last_run never decreases, and once set it is never None
\* again.
C8_LastRunMonotone ==
  [][/\ fLastRun' >= fLastRun
     /\ fLastRun # None => fLastRun' # None]_vars

\* C8, its case: the state of an older version (last_run 0, article 1
\* processed) was saved by a run with last_run advanced
C8_Witness ==
  fProcessed[1] # None /\ ~fLegacy /\ fLastRun > 0

\* C9: the article a generation job was started for is not in
\* processed_articles, in memory or in the state file.
C9_ProcessedNeverStarted ==
  pc \in {"save", "wait"} =>
    /\ state.processed_articles[articles[i]] = None
    /\ fProcessed[articles[i]] = None

\* C9, its case: the loop has passed a processed article whose Episode is not
\* in the catalog
C9_Witness ==
  /\ pc = "loop" /\ i > 1
  /\ is_processed(state, articles[i - 1])
  /\ episodes = <<>>

\* C10: in one run the driver starts at most limit generation jobs (stated
\* for a fetch that lists no article twice).
C10_AtMostLimitStarts == NoDuplicate(articles) => runStarts <= limit

\* the state file
StateFile == <<fLastRun, fLegacy, fProcessed, fPending>>

\* the ids in a processed_articles mapping
ProcessedIds(processed) == {a \in Articles : processed[a] # None}

\* C11: when the handling of an article in the driver raises an exception
\* other than AuthError and RateLimitError, the run goes on with the next
\* article, and at the end of the run (normal mode) the article is not marked
\* processed and the fetch of the next run still lists it.
C11_FailedArticleRetried ==
  [][/\ failedArticles' # failedArticles /\ pc' # "idle"
          => pc' = "loop" /\ i' = i + 1
     /\ (pc = "feed" /\ pc' = "idle" /\ ~ignore_state) =>
          \A a \in failedArticles :
            fProcessed'[a] = None /\ a \in Eligible(fLastRun')]_vars

\* C12: when the audio of the job the driver started is below the minimum
\* size, the job is removed from the pending notebooks, no Episode is appended
\* and the article is not marked processed; at the end of the run (normal
\* mode) the article is not processed and the fetch of the next run still
\* lists it.
C12_SmallAudioRetried ==
  [][/\ smallArticles' # smallArticles /\ pc' # "idle"
          => /\ cur \notin JobsOf(fPending')
             /\ fEpisodes' = fEpisodes
             /\ fProcessed'[articles[i]] = None
     /\ (pc = "feed" /\ pc' = "idle" /\ ~ignore_state) =>
          \A a \in smallArticles :
            fProcessed'[a] = None /\ a \in Eligible(fLastRun')]_vars

\* C13: once NotebookLM reported an expired session or an exhausted quota
\* for a job, the run removes no such job from the persisted pending
\* notebooks, starts no further job and does not change last_run.
C13_AuthErrorKeepsProgress ==
  [][/\ \A n \in authJobs :
          n \in JobsOf(fPending) => n \in JobsOf(fPending')
     /\ authJobs # {} => runStarts' <= runStarts /\ fLastRun' = fLastRun]_vars

\* C15: the lock is held exactly while an invocation runs (it is released on
\* every way out), and while it is held no step but those of the invocation
\* that holds it changes the state file or the catalog: another invocation
\* is turned away before it loads or saves anything.
C15_OneInvocationAtATime ==
  [][/\ (lock_fd # None <=> pc # "idle")
     /\ (lock_fd' # None <=> pc' # "idle")
     /\ (lock_fd # None /\ UNCHANGED memVars) => UNCHANGED diskVars]_vars

\* C15, its case: a run holds the lock during its wait; an invocation
\* started now is turned away and --init cannot run
C15_Witness ==
  /\ pc = "wait" /\ lock_fd = LockFd
  /\ ENABLED SecondInvocation /\ ~ENABLED RunInit

\* C16: a run publishes the feed only when it appended an Episode (from a
\* pending notebook or from a new article).
C16_PublishOnlyWhenChanged ==
  [][published' => (pending_completed > 0 \/ processed_count > 0)]_vars

C18_SeedRunOnlySetsLastRun ==
  [][(pc = "idle" /\ load_state.last_run = None /\ ~ignore_state') =>
       /\ pc' = "idle" /\ runStarts' = runStarts /\ nextNb' = nextNb
       /\ fEpisodes' = fEpisodes
       /\ fProcessed' = fProcessed
       /\ fPending' = fPending
       /\ fLastRun' \in {None, now}]_vars

\* C18, its case: the first run in normal mode found a pending notebook (of
\* a --recent run that was killed) and an article of the backlog, and set
\* last_run
C18_Witness ==
  /\ pc = "idle" /\ fLastRun = now /\ fLastRun > 0
  /\ fPending # <<>> /\ fProcessed = NoArticles
  /\ \E a \in Articles : updated[a] # None /\ updated[a] < fLastRun

\* C20: when the audio of a pending job was uploaded, the same step leaves
\* the Episode of its article in the persisted catalog and the run goes on.
C20_ReadyJobBecomesEpisode ==
  [][\A k \in 1..Len(fPending) :
       fPending[k].notebook_id \in uploadedJobs' \ uploadedJobs =>
         /\ \E e \in 1..Len(fEpisodes') :
              fEpisodes'[e].article_id = fPending[k].article_id
         /\ pc' # "idle"]_vars

\* C14: whenever a write to state.json or episodes.json is under way or was
\* cut short by a kill, each of the two files is absent or holds a complete
\* document, and the file being written holds what it held before the write
\* or the whole new document.
C14_AtomicWrite ==
  [][/\ \A path \in Targets : Loads(files'[path])
     /\ writer.pc # "none" =>
          files'[writer.path] \in
            {writer.old, [exists |-> TRUE, text |-> Text(writer.data)]}]_vars

\* C14, its case: a write of state.json was killed after a part of the new
\* document was written; state.json holds a complete document
C14_Witness ==
  /\ writer.pc = "none"
  /\ files["state.json"].exists
  /\ files[tmp_path("state.json")].exists
  /\ Len(files[tmp_path("state.json")].text) \in 1..(DocLen - 1)
  /\ files[tmp_path("state.json")].text[1] # files["state.json"].text[1]

\* C19: the timestamp of an article in processed_articles is never changed,
\* by mark_processed or by a save and a load, and mark_processed for such an
\* article returns the state as it is.
C19_MarkProcessedIdempotent ==
  [][\A a \in Articles : is_processed(state, a) =>
       /\ state'.processed_articles[a] = state.processed_articles[a]
       /\ mark_processed(state, a) = state]_vars

\* C19, its case: article 1 was marked, the clock went on, the state was
\* saved and loaded and mark_processed was called for it again
C19_Witness ==
  /\ is_processed(state, 1) /\ state.processed_articles[1] < now
  /\ fProcessed = state.processed_articles
  /\ is_processed(state, 2) /\ state.processed_articles[2] = now

\* the step is one turn of the loop of _process_pending, for the job at idx
ReconcilerTurn ==
  /\ pc = "pending" /\ idx <= Len(state.pending_notebooks)
  /\ handled' # NoJob

C22_FailedJobDropSaved ==
  [][pc = "pending" /\ handled.answer = "raised" /\ handled' # NoJob
       => \/ pc' = "pending"
          \/ handled.notebook_id \notin JobsOf(fPending')]_vars

\* C23: the turn of the reconciler for a job that is not stale and whose
\* poll answers not ready appends its record as it is to the jobs kept,
\* attempts no deletion of its notebook and changes neither the catalog nor
\* the processed articles; the pending_notebooks saved at the end of the pass
\* are the kept records of the ones persisted before, in the same order.
C23_NotReadyJobKept ==
  [][/\ ReconcilerTurn
          /\ _age_seconds(state.pending_notebooks[idx].started_at)
               <= NOTEBOOK_MAX_AGE
          /\ handled'.answer = "None"
        => /\ still_pending' =
                Append(still_pending, state.pending_notebooks[idx])
           /\ handled'.notebook_id \notin deleted'
           /\ pc' = "pending" /\ idx' = idx + 1
           /\ fEpisodes' = fEpisodes /\ episodes' = episodes
           /\ state'.processed_articles = state.processed_articles
           /\ fProcessed' = fProcessed
     /\ pc = "pending" /\ pc' = "fetch"
        => LET kept(q) == q.notebook_id \in JobsOf(still_pending)
           IN fPending' = SelectSeq(fPending, kept)]_vars

\* C23, its case: two pending jobs were polled, both are still generating
\* and both were kept in their order
C23_Witness ==
  /\ pc = "pending"
  /\ handled.answer = "None"
  /\ Len(still_pending) = 2
  /\ still_pending = fPending
  /\ deleted = {}

\* C24: a step that handles a job whose audio is Ready and that does not
\* end with the mp3 uploaded (too small, conversion or upload failed, or the
\* job completed) has attempted the deletion of its notebook; and a job that
\* leaves the persisted pending_notebooks has had the deletion of its
\* notebook attempted in the run.
C24_ReadyJobNotebookDeleted ==
  [][/\ handled'.answer = "path" /\ handled'.notebook_id \notin uploadedJobs'
        => handled'.notebook_id \in deleted'
     /\ JobsOf(fPending) \ JobsOf(fPending') \subseteq deleted \cup deleted'
    ]_vars

\* C26: when the run ends at the handling of a Ready job in the reconciler
\* whose conversion or upload failed, no persisted PendingJob refers to a
\* notebook whose deletion the run attempted.
C26_ReadyFailureStaysLocal ==
  [][(/\ pc = "pending" /\ pc' = "idle"
      /\ handled'.answer = "path"
      /\ handled'.notebook_id \notin uploadedJobs')
       => deleted' \cap JobsOf(fPending') = {}]_vars

\* C25: what load_episodes returns for a catalog file holds no article id
\* twice, holds only entries of the file, and for every article id of the
\* file it holds the last entry of that id in file order.
C25_LoadKeepsLastPerArticle ==
  [][fEpisodes' = fEpisodes =>
       /\ NoDuplicate(ArticlesOf(episodes'))
       /\ \A e \in 1..Len(episodes') : episodes'[e] \in Range(fEpisodes)
       /\ \A a \in Articles : EpisodesOf(a) # {} =>
            LET last == CHOOSE k \in EpisodesOf(a) :
                          \A j \in EpisodesOf(a) : j <= k
            IN \E e \in 1..Len(episodes') : episodes'[e] = fEpisodes[last]
    ]_vars

\* C25, its case: the file holds three entries, the first and the third for
\* the same article with different dates; the loaded list holds the third
\* and the second
C25_Witness ==
  /\ Len(fEpisodes) = 3
  /\ fEpisodes[1].article_id = fEpisodes[3].article_id
  /\ fEpisodes[1].pub_date # fEpisodes[3].pub_date
  /\ fEpisodes[2].article_id # fEpisodes[1].article_id
  /\ episodes = <<fEpisodes[3], fEpisodes[2]>>

\* every persisted job is older than NOTEBOOK_MAX_AGE
AllStale ==
  \A k \in 1..Len(fPending) : now - fPending[k].started_at > NOTEBOOK_MAX_AGE

====
